---------------------------- MODULE Spec2Model ----------------------------
(***************************************************************************)
(* Quiz extractor bot (src/bot.py): the question parser / answer matcher   *)
(* and the per-user batch state machine.                                   *)
(*                                                                         *)
(* Text is a sequence of one-character strings.  A parsed HTML document is *)
(* the sequence of its candidate containers, each holding what the         *)
(* BeautifulSoup selectors of extract_questions_from_html resolve to.      *)
(*                                                                         *)
(* Specifications:                                                         *)
(*   SpecMatch  the answer matcher on bounded option lists                 *)
(*   SpecParse  the container loop of extract_questions_from_html          *)
(*   Spec       the handlers and the process_urls tasks of one user        *)
(***************************************************************************)
EXTENDS Integers, Sequences, FiniteSets, TLC

\* An optional value (Python's `x or None`) is <<>> when absent and <<x>> when
\* present; an absent option index (correct_idx is None) is -1.
None == <<>>
Some(x) == <<x>>
The(o) == o[1]
NoIdx == -1

(***************************************************************************)
(* Bounds                                                                  *)
(***************************************************************************)
\* options offered to the matcher in SpecMatch
MaxMatchOpts == 2
\* characters of a text in SpecMatch
MaxTextLen == 2
\* list items of one container in SpecParse
MaxOpts == 5
\* containers of one document in SpecParse
MaxBlocks == 2
\* process_urls tasks alive at once in Spec
MaxFlows == 2
\* confirmation prompts whose buttons are still live in Spec
MaxPrompts == 1

(***************************************************************************)
(* Text helpers                                                            *)
(***************************************************************************)

SeqsUpTo(S, n) == UNION {[1..k -> S] : k \in 0..n}

MapSeq(s, F(_)) == [i \in 1..Len(s) |-> F(s[i])]

IsSpace(c) == c = " "

\* str.lower() on one character
LowerChar(c) ==
  CASE c = "A" -> "a"
    [] c = "B" -> "b"
    [] c = "P" -> "p"
    [] OTHER -> c

\* str.strip(): drop leading and trailing whitespace
RECURSIVE LStrip(_)
LStrip(t) ==
  IF t # <<>> /\ IsSpace(Head(t)) THEN LStrip(Tail(t)) ELSE t

RECURSIVE RStrip(_)
RStrip(t) ==
  IF t # <<>> /\ IsSpace(t[Len(t)]) THEN RStrip(SubSeq(t, 1, Len(t) - 1)) ELSE t

Strip(t) == RStrip(LStrip(t))

\* re.sub(r'\s+', ' ', t): every run of whitespace becomes one space
RECURSIVE CollapseSpaces(_)
CollapseSpaces(t) ==
  IF t = <<>> THEN <<>>
  ELSE IF IsSpace(Head(t))
       THEN << " " >> \o CollapseSpaces(LStrip(Tail(t)))
       ELSE << Head(t) >> \o CollapseSpaces(Tail(t))

Lower(t) == [i \in 1..Len(t) |-> LowerChar(t[i])]

\* re.sub(r'\s+', ' ', t).strip().lower()   (bot.py 162, 164)
Normalize(t) == Lower(Strip(CollapseSpaces(t)))

\* Python's `a in b` on strings: a is a contiguous substring of b
Contains(a, b) ==
  \E i \in 0..(Len(b) - Len(a)) : SubSeq(b, i + 1, i + Len(a)) = a

(***************************************************************************)
(* AnswerMatcher: bot.py 159-167.  Indices are 0-based as in the code.     *)
(***************************************************************************)
\* the test of line 165 for one option
OptionMatches(norm_opt, norm_answer) ==
  \/ norm_opt = norm_answer
  \/ Contains(norm_answer, norm_opt)
  \/ Contains(norm_opt, norm_answer)

\* lines 163-167: the loop over enumerate(options), from 1-based position i
RECURSIVE match_loop(_, _, _)
match_loop(options, norm_answer, i) ==
  IF i > Len(options) THEN NoIdx
  ELSE IF OptionMatches(Normalize(options[i]), norm_answer) THEN i - 1
       ELSE match_loop(options, norm_answer, i + 1)

\* lines 159-167: no index when the answer text is absent or empty
correct_idx(options, answer_text) ==
  IF answer_text = None \/ The(answer_text) = <<>> THEN NoIdx
  ELSE match_loop(options, Normalize(The(answer_text)), 1)

(***************************************************************************)
(* QuestionParser helpers                                                  *)
(***************************************************************************)
\* letters of the two alphabets the option prefix "(x)" may carry
HindiLetters == {"ka", "kha", "ga", "gha", "nga", "ca", "cha"}
LatinAD == {"a", "b", "c", "d", "A", "B", "C", "D"}

\* the text of a list item: "(x) body", or the body alone (paren "")
li_text(li) ==
  IF li.paren = "" THEN Strip(li.body)
  ELSE Strip(<< "(", li.paren, ")" >> \o li.body)

\* bot.py 75-87: the loop over the <li> elements
RECURSIVE li_loop(_, _)
li_loop(lis, options) ==
  IF lis = <<>> THEN options
  ELSE LET li == Head(lis)
       IN IF li.paren \in HindiLetters \/ li.paren \in LatinAD
          THEN li_loop(Tail(lis), Append(options, Strip(li.body)))
          ELSE IF options = <<>> /\ li_text(li) # <<>>
               THEN li_loop(Tail(lis), Append(options, li_text(li)))
               ELSE li_loop(Tail(lis), options)

\* bot.py 71-96: an element is its <li> items and its option-class <div> texts
extract_options_from_element(element) ==
  LET options == li_loop(element.lis, <<>>)
  IN IF options # <<>> THEN options
     ELSE SelectSeq([i \in 1..Len(element.divs) |-> Strip(element.divs[i])],
                    LAMBDA t : t # <<>>)

\* position of the first x in t at or after position i, 0 if none
RECURSIVE IndexFrom(_, _, _)
IndexFrom(t, x, i) ==
  IF i > Len(t) THEN 0
  ELSE IF t[i] = x THEN i ELSE IndexFrom(t, x, i + 1)

\* bot.py 98-112: the flattened text of the explanation div carries the label
\* tokens "ANS:" (Answer :) and "EXP:" (Explanation :)
extract_answer_and_explanation(div) ==
  IF div = None THEN [answer |-> None, explanation |-> None]
  ELSE LET full_text == The(div)
           a == IndexFrom(full_text, "ANS:", 1)
           e == IF a = 0 THEN 0 ELSE IndexFrom(full_text, "EXP:", a + 1)
           x == IndexFrom(full_text, "EXP:", 1)
           n == Len(full_text)
       IN [answer |->
             IF a = 0 THEN None
             ELSE Some(Strip(SubSeq(full_text, a + 1, IF e = 0 THEN n ELSE e - 1))),
           explanation |->
             IF x = 0 THEN None ELSE Some(Strip(SubSeq(full_text, x + 1, n)))]

\* bot.py 65-69: a leading "Question N" marker is the token "Q#"
clean_question(text) ==
  LET t == Strip(text)
  IN Strip(IF t # <<>> /\ Head(t) = "Q#" THEN Tail(t) ELSE t)

(***************************************************************************)
(* Formatter and the container loop: bot.py 123-186                        *)
(***************************************************************************)
\* chr(ord('a') + i) for i = 0, 1, ...
Letters == << "a", "b", "c", "d", "e", "f", "g", "h" >>

\* options[:4]   (bot.py 171)
OptionCap == 4

\* bot.py 172-176: "(<letter>) <opt>", with " *" on the matched option
option_line(i, opt, cidx) ==
  << "(", Letters[i + 1], ")", " " >> \o opt
    \o (IF i = cidx THEN << " ", "*" >> ELSE <<>>)

\* bot.py 170-180.  "\n".join(lines) is kept as the sequence of its lines.
block_text(question_text, options, cidx, explanation_text) ==
  LET shown == IF Len(options) < OptionCap THEN Len(options) ELSE OptionCap
  IN << question_text >>
       \o [i \in 1..shown |-> option_line(i - 1, options[i], cidx)]
       \o (IF explanation_text # None /\ The(explanation_text) # <<>>
           THEN << << "E", "x", ":", " " >> \o The(explanation_text) >>
           ELSE <<>>)

\* a slip in the filter of line 141: a single option is let through
too_few_options_lax(options) == Len(options) < 1

\* bot.py 141
too_few_options(options) == Len(options) < 2

\* a slip in line 181: the test on correct_idx inverted
is_undetected_inverted(cidx) == cidx # NoIdx

\* bot.py 181
is_undetected(cidx) == cidx = NoIdx

\* bot.py 123-184: one iteration of the loop over question_blocks; qs holds
\* main_qs and undetected_qs.  A container is what the selectors of lines
\* 125, 131-138 and 145-154 resolve to: dt, dd and explanation_div.
parse_block(block, qs) ==
  IF block.dt = None THEN qs
  ELSE IF block.dd = None THEN qs
  ELSE LET question_text == clean_question(The(block.dt))
           options == extract_options_from_element(The(block.dd))
       IN IF too_few_options(options) THEN qs
          ELSE LET ae == extract_answer_and_explanation(block.explanation_div)
                   cidx == correct_idx(options, ae.answer)
                   text == block_text(question_text, options, cidx, ae.explanation)
               IN IF is_undetected(cidx)
                  THEN [qs EXCEPT !.undetected = Append(@, text)]
                  ELSE [qs EXCEPT !.main = Append(@, text)]

\* bot.py 114-186 on the sequence of candidate containers
RECURSIVE parse_from(_, _)
parse_from(question_blocks, qs) ==
  IF question_blocks = <<>> THEN qs
  ELSE parse_from(Tail(question_blocks), parse_block(Head(question_blocks), qs))

extract_questions_from_html(question_blocks) ==
  parse_from(question_blocks, [main |-> <<>>, undetected |-> <<>>])

(***************************************************************************)
(* Inputs of SpecMatch and SpecParse                                       *)
(***************************************************************************)
MatchChars == {"a", "b", "A", " "}
MatchTexts == SeqsUpTo(MatchChars, MaxTextLen)
MatchOptionLists == SeqsUpTo(MatchTexts, MaxMatchOpts) \ {<<>>}

OptChars == << "p", "q", "r", "s", "t", "u", "v", "w" >>
LatinLabels == << "a", "B", "c", "d", "e", "f", "g", "h" >>
HindiLabels == << "ka", "kha", "ga", "gha", "nga", "ca", "cha" >>
\* the i-th option text as it stands after its "(x)" prefix
OptBody(i) == << " ", OptChars[i] >>

LiList(labels, n) == [i \in 1..n |-> [paren |-> labels[i], body |-> OptBody(i)]]
PlainList(n) == [i \in 1..n |-> [paren |-> "", body |-> OptBody(i)]]

Elements ==
  {[lis |-> LiList(LatinLabels, n), divs |-> <<>>] : n \in 0..MaxOpts}
    \cup {[lis |-> LiList(HindiLabels, n), divs |-> <<>>] : n \in {2, MaxOpts}}
    \cup {[lis |-> PlainList(2), divs |-> <<>>]}
    \cup {[lis |-> <<>>, divs |-> [i \in 1..n |-> OptBody(i)]] : n \in 1..2}

ExplanationDivs ==
  { None,
    Some(<< "EXP:", " ", "e" >>),
    Some(<< "ANS:", " ", "P", " ", "EXP:", "e" >>),
    Some(<< "ANS:", OptChars[MaxOpts] >>),
    Some(<< "ANS:", " " >>) }

QuestionNode == Some(<< "Q#", " ", "x" >>)

Containers ==
  {[dt |-> QuestionNode, dd |-> Some(el), explanation_div |-> ex] :
     el \in Elements, ex \in ExplanationDivs}
    \cup {[dt |-> None, dd |-> Some([lis |-> LiList(LatinLabels, 2), divs |-> <<>>]),
           explanation_div |-> None]}
    \cup {[dt |-> QuestionNode, dd |-> None, explanation_div |-> None]}

(***************************************************************************)
(* State                                                                   *)
(***************************************************************************)
VARIABLES
  m_options,      \* SpecMatch: the option texts handed to the matcher
  m_answer,       \* SpecMatch: the answer text, or None
  m_idx,          \* SpecMatch: correct_idx as computed, Pending before
  seen,           \* SpecParse: the containers the loop has consumed
  main_qs,        \* SpecParse: main_qs of extract_questions_from_html
  undetected_qs,  \* SpecParse: undetected_qs
  user_states,    \* Spec: the registry, user -> its UserState or None
  flows,          \* Spec: the process_urls tasks
  files,          \* Spec: the output files that exist on disk
  prompts,        \* Spec: confirmation prompts whose buttons are live
  fetch           \* SpecFetch: one call of fetch_url

matchVars == << m_options, m_answer, m_idx >>
parseVars == << seen, main_qs, undetected_qs >>
botVars == << user_states, flows, files, prompts >>
fetchVars == << fetch >>
vars == << m_options, m_answer, m_idx, seen, main_qs, undetected_qs,
           user_states, flows, files, prompts, fetch >>

\* m_idx before the matcher has run
Pending == NoIdx - 1

MatchIdle == m_options = <<>> /\ m_answer = None /\ m_idx = Pending
ParseIdle == seen = <<>> /\ main_qs = <<>> /\ undetected_qs = <<>>

\* no call of fetch_url under observation
FetchIdle ==
  fetch = [pc |-> "idle", url |-> <<>>, attempt |-> 0, log |-> <<>>,
           result |-> None, raised |-> ""]

(***************************************************************************)
(* Batch coordinator: data                                                 *)
(*                                                                         *)
(* user_states maps a user to its UserState, None when the user has no     *)
(* entry.  A task's local `state` (bot.py 313) is a reference: "registry"  *)
(* when it is the object the registry holds now, "detached" when that      *)
(* object has since been deleted from the registry.  No handler can reach  *)
(* a detached object, and a task reads only its cancel_requested (line     *)
(* 326), so a detached object is its flag, kept in the task.               *)
(***************************************************************************)
Users == {"u1"}
FlowIds == 1..MaxFlows

\* UserState.__init__   (bot.py 46-51; `results` is never read or written)
FreshState == [urls |-> <<>>, processing |-> FALSE, cancel_requested |-> FALSE]

\* fetch_url(session, url, retries=3)   (bot.py 188)
Retries == 3
\* valid_urls[:5]   (bot.py 279)
PreviewMax == 5

\* A line of a message is a sequence of tokens: a scheme, a host, a blank.
UrlA == << "http://", "a" >>
NotUrl == << "ftp://", "x" >>
\* the text messages the user sends, as their lines
Messages ==
  { << UrlA, << " ", "https://", "b", " " >> >>,
    << NotUrl, << " " >>, UrlA >>,
    << NotUrl >> }

\* url.startswith(('http://', 'https://'))   (bot.py 268)
is_valid_url(url) == url # <<>> /\ url[1] \in {"http://", "https://"}

\* What a successful GET of each URL returns: resp.text (bot.py 193) as the
\* candidate containers of the page, or a page on which the parser raises.
GoodPage ==
  << [dt |-> QuestionNode,
      dd |-> Some([lis |-> LiList(LatinLabels, 2), divs |-> <<>>]),
      explanation_div |-> Some(<< "ANS:", " ", "P", " ", "EXP:", "e" >>)],
     [dt |-> QuestionNode,
      dd |-> Some([lis |-> LiList(HindiLabels, 2), divs |-> <<>>]),
      explanation_div |-> None] >>

Page(url) ==
  IF url = UrlA THEN [parses |-> TRUE, html |-> GoodPage]
  ELSE [parses |-> FALSE, html |-> <<>>]

\* a task slot that holds no task
IdleFlow ==
  [pc |-> "idle", user |-> "", state |-> "none", flag |-> FALSE,
   urls |-> <<>>, idx |-> 0, attempt |-> 0,
   all_main |-> <<>>, all_undetected |-> <<>>, failed |-> <<>>,
   sent_any |-> FALSE, exit |-> "", fetched |-> {},
   sent_main |-> None, sent_undetected |-> None, sent_failed |-> None,
   sent_empty |-> FALSE, cancelled_at |-> 0]

NoReply == [kind |-> "none", count |-> 0, preview |-> <<>>]
Say(kind) == [kind |-> kind, count |-> 0, preview |-> <<>>]

BotIdle ==
  /\ user_states = [u \in Users |-> None]
  /\ flows = [f \in FlowIds |-> IdleFlow]
  /\ files = {}
  /\ prompts = 0

\* The registry and the tasks' references into it: m is [us, fl].
Memory == [us |-> user_states, fl |-> flows]

\* get_state   (bot.py 55-58)
get_state(m, user_id) ==
  IF m.us[user_id] = None
  THEN [m EXCEPT !.us[user_id] = Some(FreshState)]
  ELSE m

\* clear_state   (bot.py 60-62): the tasks that hold the deleted object keep it
clear_state(m, user_id) ==
  IF m.us[user_id] = None THEN m
  ELSE [us |-> [m.us EXCEPT ![user_id] = None],
        fl |-> [f \in FlowIds |->
                  IF m.fl[f].state = "registry" /\ m.fl[f].user = user_id
                  THEN [m.fl[f] EXCEPT
                          !.state = "detached",
                          !.flag = The(m.us[user_id]).cancel_requested]
                  ELSE m.fl[f]]]

\* the UserState get_state(user_id) returns in memory m
StateOf(m, user_id) == The(get_state(m, user_id).us[user_id])

\* memory m with the UserState of user_id replaced by its updated value
WithState(m, user_id, state) == [m EXCEPT !.us[user_id] = Some(state)]

(***************************************************************************)
(* SpecMatch                                                               *)
(***************************************************************************)
InitMatch ==
  /\ m_options \in MatchOptionLists
  /\ m_answer \in {None} \cup {Some(t) : t \in MatchTexts}
  /\ m_idx = Pending
  /\ ParseIdle
  /\ BotIdle
  /\ FetchIdle

Match ==
  /\ m_idx = Pending
  /\ m_idx' = correct_idx(m_options, m_answer)
  /\ UNCHANGED << m_options, m_answer, parseVars, botVars, fetchVars >>

NextMatch == Match

SpecMatch == InitMatch /\ [][NextMatch]_vars

(***************************************************************************)
(* SpecParse                                                               *)
(***************************************************************************)
InitParse == MatchIdle /\ ParseIdle /\ BotIdle /\ FetchIdle

ParseBlock ==
  /\ Len(seen) < MaxBlocks
  /\ \E block \in Containers :
       LET qs == parse_block(block, [main |-> main_qs, undetected |-> undetected_qs])
       IN /\ seen' = Append(seen, block)
          /\ main_qs' = qs.main
          /\ undetected_qs' = qs.undetected
  /\ UNCHANGED << matchVars, botVars, fetchVars >>

NextParse == ParseBlock

SpecParse == InitParse /\ [][NextParse]_vars

(***************************************************************************)
(* SpecFetch: one call fetch_url(session, url) (bot.py 188-199), from GET  *)
(* to GET.  `log` records the GETs with their outcome and the sleeps with  *)
(* their delay, in order.                                                  *)
(***************************************************************************)
FetchUrls == {UrlA, << "https://", "b" >>}

\* what session.get / raise_for_status (bot.py 191-192) can end in
GetFailures == {"ConnectionError", "Timeout", "HTTPError"}
GetOutcomes == {"ok"} \cup GetFailures

GetEvent(outcome) == [kind |-> "get", outcome |-> outcome, delay |-> 0]
SleepEvent(delay) == [kind |-> "sleep", outcome |-> "", delay |-> delay]

\* a slip in line 196: the last attempt is not recognised
is_last_attempt_never(attempt, retries) == FALSE

\* bot.py 196
is_last_attempt(attempt, retries) == attempt = retries - 1

\* bot.py 198: 2 ** attempt
backoff_delay(attempt) == 2 ^ attempt

InitFetch ==
  /\ MatchIdle
  /\ ParseIdle
  /\ BotIdle
  /\ \E url \in FetchUrls :
       fetch = [pc |-> "get", url |-> url, attempt |-> 0, log |-> <<>>,
                result |-> None, raised |-> ""]

\* bot.py 190-198: one GET and what follows it up to the sleep or the exit
FetchGet ==
  /\ fetch.pc = "get"
  /\ \E outcome \in GetOutcomes :
       LET got == [fetch EXCEPT !.log = Append(@, GetEvent(outcome))]
       IN fetch' =
            IF outcome = "ok"
            THEN [got EXCEPT !.pc = "returned", !.result = Some(Page(fetch.url))]
            ELSE IF is_last_attempt(fetch.attempt, Retries)
            THEN [got EXCEPT !.pc = "raised", !.raised = outcome]
            ELSE [got EXCEPT !.pc = "sleep",
                             !.log = Append(@, SleepEvent(backoff_delay(fetch.attempt)))]
  /\ UNCHANGED << matchVars, parseVars, botVars >>

\* bot.py 189, 198-199: the sleep returned; the loop goes on, or ends with
\* `return None` when range(retries) is used up
FetchWake ==
  /\ fetch.pc = "sleep"
  /\ fetch' = IF fetch.attempt + 1 < Retries
              THEN [fetch EXCEPT !.attempt = @ + 1, !.pc = "get"]
              ELSE [fetch EXCEPT !.attempt = @ + 1, !.pc = "returned"]
  /\ UNCHANGED << matchVars, parseVars, botVars >>

NextFetch == FetchGet \/ FetchWake

SpecFetch == InitFetch /\ [][NextFetch]_vars

(***************************************************************************)
(* Batch coordinator: the handlers.  Each handler changes the state before *)
(* its first await, so it is one step.  What a handler does to the         *)
(* UserState it looked up and what it sends back is an operator on that    *)
(* UserState; the action applies it to the registry.                       *)
(***************************************************************************)
\* a finished task is released before anything else happens
Settled == \A f \in FlowIds : flows[f].pc # "done"

Commit(m) ==
  /\ user_states' = m.us
  /\ flows' = m.fl

\* bot.py 221-227
cancel_result(state) ==
  IF state.processing
  THEN [state |-> [state EXCEPT !.cancel_requested = TRUE], clear |-> FALSE,
        reply |-> Say("cancellation_requested")]
  ELSE [state |-> state, clear |-> TRUE, reply |-> Say("state_cleared")]

\* bot.py 218-227: the registry after /cancel of user_id in memory m
cancel_effect(m, user_id) ==
  LET looked == get_state(m, user_id)
      r == cancel_result(StateOf(looked, user_id))
  IN IF r.clear THEN clear_state(looked, user_id)
     ELSE WithState(looked, user_id, r.state)

\* bot.py 218-227
cancel_command(user_id) ==
     /\ Settled
     /\ Commit(cancel_effect(Memory, user_id))
     /\ UNCHANGED << files, prompts, matchVars, parseVars, fetchVars >>

\* bot.py 232-247: `fresh` says that the session is replaced by a new one
extract_result(state) ==
  IF state.processing
  THEN [fresh |-> FALSE, reply |-> Say("already_in_progress")]
  ELSE [fresh |-> TRUE, reply |-> Say("send_me_the_urls")]

\* bot.py 229-247: the registry after /extract of user_id in memory m
extract_effect(m, user_id) ==
  LET looked == get_state(m, user_id)
      fresh == get_state(clear_state(looked, user_id), user_id)
  IN IF extract_result(StateOf(looked, user_id)).fresh
     THEN WithState(fresh, user_id,
                    [StateOf(fresh, user_id) EXCEPT !.processing = TRUE])
     ELSE looked

\* bot.py 229-247
extract_command(user_id) ==
  /\ Settled
  /\ Commit(extract_effect(Memory, user_id))
  /\ UNCHANGED << files, prompts, matchVars, parseVars, fetchVars >>

\* bot.py 258-259: the stripped, non-empty lines of the message
message_urls(text) == SelectSeq(MapSeq(text, Strip), LAMBDA l : l # <<>>)

\* bot.py 279-281: the URLs the prompt shows
preview_of(valid_urls) ==
  SubSeq(valid_urls, 1,
         IF Len(valid_urls) < PreviewMax THEN Len(valid_urls) ELSE PreviewMax)

\* bot.py 252-290
text_result(state, text) ==
  LET urls == message_urls(text)
      valid_urls == SelectSeq(urls, is_valid_url)
  IN IF ~state.processing \/ state.cancel_requested
     THEN [state |-> state, reply |-> NoReply]
     ELSE IF urls = <<>>
     THEN [state |-> state, reply |-> Say("no_urls_found")]
     ELSE IF valid_urls = <<>>
     THEN [state |-> state, reply |-> Say("no_valid_urls_found")]
     ELSE [state |-> [state EXCEPT !.urls = valid_urls],
           reply |-> [kind |-> "confirm_prompt", count |-> Len(valid_urls),
                      preview |-> preview_of(valid_urls)]]

\* bot.py 249-290; the prompt sent at line 286 carries the two buttons
handle_text(user_id, text) ==
  LET m == get_state(Memory, user_id)
      r == text_result(StateOf(m, user_id), text)
      prompted == r.reply.kind = "confirm_prompt"
  IN /\ Settled
     /\ prompted => prompts < MaxPrompts
     /\ Commit(WithState(m, user_id, r.state))
     /\ prompts' = IF prompted THEN prompts + 1 ELSE prompts
     /\ UNCHANGED << files, matchVars, parseVars, fetchVars >>

\* bot.py 298-305: `task` says that process_urls is started
confirm_result(state) ==
  IF state.urls = <<>>
  THEN [task |-> FALSE, reply |-> Say("alert_no_urls")]
  ELSE [task |-> TRUE, reply |-> Say("starting_extraction")]

\* bot.py 292-305, data == "confirm_extract", from a button of a live prompt;
\* the edit of line 302 takes the buttons off that prompt
callback_confirm(user_id) ==
  LET m == get_state(Memory, user_id)
  IN /\ Settled
     /\ prompts > 0
     /\ IF confirm_result(StateOf(m, user_id)).task
        THEN \E f \in FlowIds :
               /\ flows[f].pc = "idle"
               /\ \A g \in FlowIds : flows[g].pc = "idle" => f <= g
               /\ Commit([m EXCEPT !.fl[f] = [IdleFlow EXCEPT !.pc = "start",
                                                              !.user = user_id]])
               /\ prompts' = prompts - 1
        ELSE /\ Commit(m)
             /\ UNCHANGED prompts
     /\ UNCHANGED << files, matchVars, parseVars, fetchVars >>

\* bot.py 307-310, data == "cancel_extract"
callback_reject(user_id) ==
  /\ Settled
  /\ prompts > 0
  /\ Commit(clear_state(get_state(Memory, user_id), user_id))
  /\ prompts' = prompts - 1
  /\ UNCHANGED << files, matchVars, parseVars, fetchVars >>

(***************************************************************************)
(* Batch coordinator: process_urls (bot.py 312-408).  A task runs from one *)
(* await to the next in one step; pc names the await it is suspended at.   *)
(* session.get (bot.py 191) blocks the event loop, so a GET and what       *)
(* follows it up to the next await belong to the same step.                *)
(***************************************************************************)
\* state.cancel_requested as the task reads it
flag_of(fl, us) ==
  IF fl.state = "registry" THEN The(us[fl.user]).cancel_requested ELSE fl.flag

\* a slip in the loop: the flag is consulted before the first URL only
cancel_seen_at_first_only(fl, us, i) == i = 1 /\ flag_of(fl, us)

\* bot.py 326: the test at the head of iteration i
cancel_seen(fl, us, i) == flag_of(fl, us)

\* bot.py 325-332: the head of iteration i (idx = i), up to the next await.
\* cancelled_at is the number shown by "Cancelled at URL {idx}/{total}".
\* Past the last URL the loop ends and line 364 is awaited.
loop_head(fl, us, i) ==
  IF i > Len(fl.urls)
  THEN [fl EXCEPT !.idx = i, !.exit = "Completed", !.pc = "final_status"]
  ELSE IF cancel_seen(fl, us, i)
       THEN [fl EXCEPT !.idx = i, !.exit = "Cancelled", !.pc = "cancel_status",
                       !.cancelled_at = i]
       ELSE [fl EXCEPT !.idx = i, !.attempt = 0, !.pc = "status"]

\* bot.py 350-355: failed.append, then the sleep of line 355
record_failure(fl, url, reason) ==
  [fl EXCEPT !.failed = Append(@, [url |-> url, reason |-> reason]),
             !.attempt = 0, !.pc = "pause"]

\* bot.py 189-198 and 340-355: GET number `attempt` (0-based) of the current
\* URL with outcome ok, then everything up to the next await.  fetch_url
\* returns None (line 199, 342-344) only for retries = 0, which is never passed.
\* `attempt` is fetch_url's loop variable: it is gone once fetch_url has ended.
fetch_attempt(fl, attempt, ok) ==
  LET url == fl.urls[fl.idx]
      got == [fl EXCEPT !.fetched = @ \cup {fl.idx}, !.attempt = attempt]
  IN IF ok
     THEN IF Page(url).parses
          THEN LET qs == extract_questions_from_html(Page(url).html)
               IN [got EXCEPT !.all_main = @ \o qs.main,
                              !.all_undetected = @ \o qs.undetected,
                              !.attempt = 0, !.pc = "pause"]
          ELSE record_failure(got, url, "parse error")
     ELSE IF attempt = Retries - 1
          THEN record_failure(got, url, "fetch error")
          ELSE [got EXCEPT !.pc = "backoff"]

MainFile(user_id) == << "main", user_id >>
UndetectedFile(user_id) == << "undetected", user_id >>

\* The sends of lines 366-403 from a given point on, up to the next await;
\* pc "finally" says that the try block was left.  r is [fl, files].
after_failed(r) ==
  IF ~r.fl.sent_any /\ r.fl.failed = <<>>
  THEN [r EXCEPT !.fl.pc = "send_empty"]
  ELSE [r EXCEPT !.fl.pc = "finally"]

from_failed(r) ==
  IF r.fl.failed # <<>>
  THEN [r EXCEPT !.fl.pc = "send_failed"]
  ELSE after_failed(r)

from_undetected(r) ==
  IF r.fl.all_undetected # <<>>
  THEN [fl |-> [r.fl EXCEPT !.pc = "send_undetected"],
        files |-> r.files \cup {UndetectedFile(r.fl.user)}]
  ELSE from_failed(r)

from_main(r) ==
  IF r.fl.all_main # <<>>
  THEN [fl |-> [r.fl EXCEPT !.pc = "send_main"],
        files |-> r.files \cup {MainFile(r.fl.user)}]
  ELSE from_undetected(r)

\* os.remove(name) (bot.py 377, 389): FileNotFoundError leaves the try block
os_remove(r, name) ==
  IF name \in r.files
  THEN [r EXCEPT !.files = @ \ {name}, !.fl.sent_any = TRUE]
  ELSE [r EXCEPT !.fl.pc = "finally"]

\* The step of task f taking effect; when the try block was left, the
\* finally clause (bot.py 405-408) runs first.
FlowCommit(f, r) ==
  LET m == [Memory EXCEPT !.fl[f] = r.fl]
      cleared == clear_state(m, r.fl.user)
  IN /\ Settled
     /\ IF r.fl.pc = "finally"
        THEN Commit([cleared EXCEPT !.fl[f].pc = "done", !.fl[f].state = "none",
                                    !.fl[f].flag = FALSE])
        ELSE Commit(m)
     /\ files' = r.files
     /\ UNCHANGED << prompts, matchVars, parseVars, fetchVars >>

Here(f) == [fl |-> flows[f], files |-> files]

\* bot.py 312-332: the task starts
FlowStart(f) ==
  /\ Settled
  /\ flows[f].pc = "start"
  /\ LET m == get_state(Memory, flows[f].user)
         fl == [flows[f] EXCEPT !.state = "registry",
                                !.urls = StateOf(m, flows[f].user).urls]
     IN Commit([m EXCEPT !.fl[f] = loop_head(fl, m.us, 1)])
  /\ UNCHANGED << files, prompts, matchVars, parseVars, fetchVars >>

\* bot.py 332-341: the status edit returned (or raised MessageNotModified,
\* line 337); the first GET follows
FlowStatusDone(f) ==
  /\ flows[f].pc = "status"
  /\ \E ok \in BOOLEAN :
       FlowCommit(f, [Here(f) EXCEPT !.fl = fetch_attempt(flows[f], 0, ok)])

\* bot.py 198: the backoff sleep returned; the next GET follows
FlowBackoffDone(f) ==
  /\ flows[f].pc = "backoff"
  /\ \E ok \in BOOLEAN :
       FlowCommit(f, [Here(f) EXCEPT
                        !.fl = fetch_attempt(flows[f], flows[f].attempt + 1, ok)])

\* bot.py 355: the sleep after a URL returned; the next iteration begins
FlowPauseDone(f) ==
  /\ flows[f].pc = "pause"
  /\ FlowCommit(f, [Here(f) EXCEPT
                      !.fl = loop_head(flows[f], user_states, flows[f].idx + 1)])

\* bot.py 327-328: the "Cancelled at URL" edit returned; break
FlowCancelStatusDone(f) ==
  /\ flows[f].pc = "cancel_status"
  /\ FlowCommit(f, [Here(f) EXCEPT !.fl.pc = "final_status"])

\* bot.py 364-370: the final status edit returned; the sends begin
FlowFinalStatusDone(f) ==
  /\ flows[f].pc = "final_status"
  /\ FlowCommit(f, from_main(Here(f)))

\* bot.py 372-378: send_document of the main file returned
FlowSendMainDone(f) ==
  /\ flows[f].pc = "send_main"
  /\ LET sent == [Here(f) EXCEPT !.fl.sent_main = Some(flows[f].all_main)]
         r == os_remove(sent, MainFile(flows[f].user))
     IN FlowCommit(f, IF r.fl.pc = "finally" THEN r ELSE from_undetected(r))

\* bot.py 384-390: send_document of the undetected file returned
FlowSendUndetectedDone(f) ==
  /\ flows[f].pc = "send_undetected"
  /\ LET sent == [Here(f) EXCEPT
                    !.fl.sent_undetected = Some(flows[f].all_undetected)]
         r == os_remove(sent, UndetectedFile(flows[f].user))
     IN FlowCommit(f, IF r.fl.pc = "finally" THEN r ELSE from_failed(r))

\* bot.py 392-400: send_message of the failure list returned
FlowSendFailedDone(f) ==
  /\ flows[f].pc = "send_failed"
  /\ FlowCommit(f, after_failed([Here(f) EXCEPT
                                   !.fl.sent_failed = Some(flows[f].failed)]))

\* bot.py 402-403: send_message "No questions were extracted" returned
FlowSendEmptyDone(f) ==
  /\ flows[f].pc = "send_empty"
  /\ FlowCommit(f, [Here(f) EXCEPT !.fl.sent_empty = TRUE, !.fl.pc = "finally"])

\* the finished task is released
FlowReap(f) ==
  /\ flows[f].pc = "done"
  /\ flows' = [flows EXCEPT ![f] = IdleFlow]
  /\ UNCHANGED << user_states, files, prompts, matchVars, parseVars, fetchVars >>

\* bot.py 327, 332, 364, 372, 384, 398-403: the call on the transport that
\* task f awaits raises (an error other than MessageNotModified at line 332);
\* nothing in process_urls catches it and the try block is left.
FlowTransportFault(f) ==
  /\ flows[f].pc \in {"status", "cancel_status", "final_status", "send_main",
                      "send_undetected", "send_failed", "send_empty"}
  /\ FlowCommit(f, [Here(f) EXCEPT !.fl.attempt = 0, !.fl.pc = "finally"])

(***************************************************************************)
(* Spec                                                                    *)
(***************************************************************************)
Init == MatchIdle /\ ParseIdle /\ BotIdle /\ FetchIdle

Next ==
  \/ \E u \in Users : extract_command(u)
  \/ \E u \in Users : cancel_command(u)
  \/ \E u \in Users, text \in Messages : handle_text(u, text)
  \/ \E u \in Users : callback_confirm(u)
  \/ \E u \in Users : callback_reject(u)
  \/ \E f \in FlowIds : FlowStart(f)
  \/ \E f \in FlowIds : FlowStatusDone(f)
  \/ \E f \in FlowIds : FlowBackoffDone(f)
  \/ \E f \in FlowIds : FlowPauseDone(f)
  \/ \E f \in FlowIds : FlowCancelStatusDone(f)
  \/ \E f \in FlowIds : FlowFinalStatusDone(f)
  \/ \E f \in FlowIds : FlowSendMainDone(f)
  \/ \E f \in FlowIds : FlowSendUndetectedDone(f)
  \/ \E f \in FlowIds : FlowSendFailedDone(f)
  \/ \E f \in FlowIds : FlowSendEmptyDone(f)
  \/ \E f \in FlowIds : FlowReap(f)

Spec == Init /\ [][Next]_vars

\* Spec with a transport whose calls can fail
NextFault ==
  \/ Next
  \/ \E f \in FlowIds : FlowTransportFault(f)

SpecFault == Init /\ [][NextFault]_vars

(***************************************************************************)
(* Claims on the matcher and the parser                                    *)
(***************************************************************************)
\* 0-based index of the first option satisfying P, NoIdx if none
FirstIdx(options, P(_)) ==
  LET hits == {i \in 1..Len(options) : P(options[i])}
  IN IF hits = {} THEN NoIdx
     ELSE (CHOOSE i \in hits : \A j \in hits : i <= j) - 1

\* the index the two-rule priority of the claim selects
PriorityIdx(options, answer_text) ==
  LET na == Normalize(answer_text)
      exact == FirstIdx(options, LAMBDA o : Normalize(o) = na)
      related == FirstIdx(options, LAMBDA o : \/ Contains(na, Normalize(o))
                                             \/ Contains(Normalize(o), na))
  IN IF exact # NoIdx THEN exact ELSE related

\* C8: for a present answer text the chosen index is the first option equal
\* to the answer after normalization if there is one anywhere in the list,
\* else the first option related to it by containment, else unset.
C8_ExactBeatsContainment ==
  (m_idx # Pending /\ m_answer # None /\ The(m_answer) # <<>>)
    => m_idx = PriorityIdx(m_options, The(m_answer))

\* a container that reaches the classification of lines 159-184
PassesFilter(block) ==
  /\ block.dt # None
  /\ block.dd # None
  /\ Len(extract_options_from_element(The(block.dd))) >= 2

\* a container with an options element that yields fewer than 2 options
FewOptions(block) ==
  /\ block.dt # None
  /\ block.dd # None
  /\ Len(extract_options_from_element(The(block.dd))) < 2

IdxOf(block) ==
  correct_idx(extract_options_from_element(The(block.dd)),
              extract_answer_and_explanation(block.explanation_div).answer)

RenderedOf(block) ==
  block_text(clean_question(The(block.dt)),
             extract_options_from_element(The(block.dd)),
             IdxOf(block),
             extract_answer_and_explanation(block.explanation_div).explanation)

\* C9: every container passing the minimum-options filter yields exactly one
\* block, in main iff its correct-option index was determined and in
\* undetected otherwise; none is in both collections or in neither.
C9_ExactlyOneBucket ==
  LET passed == SelectSeq(seen, PassesFilter)
      withIdx == SelectSeq(passed, LAMBDA b : IdxOf(b) # NoIdx)
      noIdx == SelectSeq(passed, LAMBDA b : IdxOf(b) = NoIdx)
  IN /\ Len(main_qs) + Len(undetected_qs) = Len(passed)
     /\ main_qs = MapSeq(withIdx, RenderedOf)
     /\ undetected_qs = MapSeq(noIdx, RenderedOf)

\* C9 witness: both buckets received a block
C9_Witness ==
  /\ main_qs # <<>>
  /\ undetected_qs # <<>>
  /\ \E i \in 1..Len(seen) : PassesFilter(seen[i]) /\ IdxOf(seen[i]) # NoIdx
  /\ \E i \in 1..Len(seen) : PassesFilter(seen[i]) /\ IdxOf(seen[i]) = NoIdx

\* C10: a container yielding fewer than 2 options adds no block to main or
\* undetected, and the containers after it are processed as if it were absent.
C10_FewOptionsSkipped ==
  LET rest == SelectSeq(seen, LAMBDA b : ~FewOptions(b))
      qs == extract_questions_from_html(rest)
  IN /\ main_qs = qs.main
     /\ undetected_qs = qs.undetected
     /\ Len(main_qs) + Len(undetected_qs) = Len(SelectSeq(seen, PassesFilter))

\* C10 witness: a one-option container was consumed, then a later container
\* produced a block
C10_Witness ==
  /\ Len(seen) = 2
  /\ FewOptions(seen[1])
  /\ Len(extract_options_from_element(The(seen[1].dd))) = 1
  /\ PassesFilter(seen[2])
  /\ Len(main_qs) + Len(undetected_qs) = 1


\* the consumed containers behind main_qs and behind undetected_qs, in order
MainSources == SelectSeq(SelectSeq(seen, PassesFilter), LAMBDA b : IdxOf(b) # NoIdx)
UndetectedSources ==
  SelectSeq(SelectSeq(seen, PassesFilter), LAMBDA b : IdxOf(b) = NoIdx)

OptionsOf(block) == extract_options_from_element(The(block.dd))

ExplanationOf(block) ==
  extract_answer_and_explanation(block.explanation_div).explanation

HasPrefix(line, pre) == Len(line) >= Len(pre) /\ SubSeq(line, 1, Len(pre)) = pre

HasSuffix(line, suf) ==
  Len(line) >= Len(suf) /\ SubSeq(line, Len(line) - Len(suf) + 1, Len(line)) = suf

\* text is one question line, one line "(letter) ..." per option of the
\* container in order from 'a', and an "Ex:" line iff an explanation was found
RendersAllOptions(text, block) ==
  LET N == Len(OptionsOf(block))
      explained == ExplanationOf(block) # None /\ The(ExplanationOf(block)) # <<>>
  IN /\ Len(text) = 1 + N + (IF explained THEN 1 ELSE 0)
     /\ text[1] = clean_question(The(block.dt))
     /\ \A i \in 1..N : HasPrefix(text[1 + i], << "(", Letters[i], ")", " " >>)
     /\ explained <=> HasPrefix(text[Len(text)], << "E", "x", ":", " " >>)

\* C11: the block rendered for a question with N >= 2 options has exactly one
\* question line, N option lines lettered from 'a' in order, and an "Ex:"
\* line iff explanation text was recovered.
C11_BlockHasAllOptionLines ==
  /\ Len(main_qs) = Len(MainSources)
  /\ Len(undetected_qs) = Len(UndetectedSources)
  /\ \A j \in 1..Len(main_qs) : RendersAllOptions(main_qs[j], MainSources[j])
  /\ \A j \in 1..Len(undetected_qs) :
       RendersAllOptions(undetected_qs[j], UndetectedSources[j])

\* the lines of a block that carry the correct-answer marker
MarkedLines(text) == {i \in 1..Len(text) : HasSuffix(text[i], << " ", "*" >>)}

\* C18: every block of main_qs has exactly one marked line, the line of the
\* matched option, and no block of undetected_qs has a marked line, whatever
\* the number of options.
C18_MainBlockHasOneMarker ==
  /\ Len(main_qs) = Len(MainSources)
  /\ \A j \in 1..Len(main_qs) :
       MarkedLines(main_qs[j]) = {IdxOf(MainSources[j]) + 2}
  /\ \A j \in 1..Len(undetected_qs) : MarkedLines(undetected_qs[j]) = {}

(***************************************************************************)
(* Claims on the fetcher                                                   *)
(***************************************************************************)
GetsOf(log) == SelectSeq(log, LAMBDA e : e.kind = "get")
SleepsOf(log) == SelectSeq(log, LAMBDA e : e.kind = "sleep")

\* C12: one call of fetch_url makes at most 3 GETs; a successful GET ends the
\* call with the document and is the last event; between two consecutive
\* GETs lies exactly one sleep, the i-th of 2^(i-1) time units, and only a
\* failed GET with attempts left is followed by a sleep; after the third
\* failure the call raises the cause of that third failure without sleeping.
C12_RetryBound ==
  LET log == fetch.log
      gets == GetsOf(log)
      sleeps == SleepsOf(log)
  IN /\ Len(gets) <= Retries
     /\ \A i \in 1..Len(log) : log[i].kind = (IF i % 2 = 1 THEN "get" ELSE "sleep")
     /\ \A i \in 1..(Len(gets) - 1) : gets[i].outcome # "ok"
     /\ \A i \in 1..Len(sleeps) : sleeps[i].delay = 2 ^ (i - 1)
     /\ fetch.pc = "sleep" => Len(gets) < Retries /\ log[Len(log)].kind = "sleep"
     /\ fetch.pc = "returned"
          => /\ log[Len(log)] = GetEvent("ok")
             /\ fetch.result = Some(Page(fetch.url))
     /\ fetch.pc = "raised"
          => /\ Len(gets) = Retries
             /\ log[Len(log)].kind = "get"
             /\ fetch.raised = log[Len(log)].outcome
             /\ fetch.raised \in GetFailures

\* three failed GETs with sleeps of 1 and 2 between them, the first and the
\* last failing for different causes, and the call has raised
C12_Witness ==
  /\ fetch.pc = "raised"
  /\ Len(fetch.log) = 5
  /\ SleepsOf(fetch.log) = << SleepEvent(1), SleepEvent(2) >>
  /\ fetch.log[1].outcome # fetch.log[5].outcome

\* C13: when a GET of a task fails with attempts left while the task's
\* cancellation flag is raised, the fetch is abandoned: the task does not
\* enter a backoff sleep.
C13_FetchAbortsOnCancel ==
  [][\A f \in FlowIds :
       (/\ flows[f].pc \in {"status", "backoff"}
        /\ flag_of(flows[f], user_states)
        /\ flows'[f] # flows[f])
         => flows'[f].pc # "backoff"]_vars

(***************************************************************************)
(* Claims on the batch coordinator                                         *)
(***************************************************************************)
IsPrefix(a, b) == Len(a) <= Len(b) /\ SubSeq(b, 1, Len(a)) = a

\* the tasks of user u between their first step and their last
Running(u) ==
  { f \in FlowIds : flows[f].user = u /\ flows[f].pc \notin {"idle", "start", "done"} }

\* the tasks of user u that have not finished, scheduled ones included
Unfinished(u) ==
  { f \in FlowIds : flows[f].user = u /\ flows[f].pc \notin {"idle", "done"} }

\* task f is at work on URL idx, which is not the last, and its flag is raised
CancelPending(f) ==
  /\ flows[f].pc \in {"status", "backoff", "pause"}
  /\ flows[f].idx < Len(flows[f].urls)
  /\ flag_of(flows[f], user_states)

\* the questions of the page of URL number i of task f
QuestionsOf(f, i) == extract_questions_from_html(Page(flows[f].urls[i]).html)

\* one step from a state where task f has a cancellation pending on URL k
CancelPendingStep(f) ==
  LET k == flows[f].idx
      now == flows[f]
      nxt == flows'[f]
  IN /\ nxt.fetched \subseteq 1..k
     /\ IsPrefix(now.all_main, nxt.all_main)
     /\ IsPrefix(now.all_undetected, nxt.all_undetected)
     /\ IsPrefix(now.failed, nxt.failed)
     /\ IF nxt.pc \in {"status", "backoff", "pause"}
        THEN /\ nxt.idx = k
             /\ flag_of(nxt, user_states')
             /\ (now.pc # "pause" /\ nxt.pc = "pause" /\ nxt.failed = now.failed)
                  => /\ nxt.all_main = now.all_main \o QuestionsOf(f, k).main
                     /\ nxt.all_undetected
                          = now.all_undetected \o QuestionsOf(f, k).undetected
        ELSE /\ now.pc = "pause"
             /\ nxt.pc = "cancel_status"
             /\ nxt.exit = "Cancelled"
             /\ nxt.idx = k + 1
             /\ k \in nxt.fetched

\* one step of a task that has halted as Cancelled
CancelledStep(f) ==
  \/ flows'[f].pc \in {"idle", "done"}
  \/ /\ flows'[f].exit = "Cancelled"
     /\ flows'[f].fetched = flows[f].fetched
     /\ flows'[f].all_main = flows[f].all_main
     /\ flows'[f].all_undetected = flows[f].all_undetected
     /\ flows'[f].failed = flows[f].failed

\* C1: once the flag of a task's session is raised while the task works on
\* URL k < n, the task finishes URL k and keeps what it yields, performs no
\* GET for a later URL, leaves the loop through the cancel branch at the head
\* of iteration k+1, and from then on fetches nothing and keeps what it
\* accumulated.
C1_CancelAtUrlBoundary ==
  [][\A f \in FlowIds :
       /\ CancelPending(f) => CancelPendingStep(f)
       /\ flows[f].exit = "Cancelled" => CancelledStep(f)]_vars

\* a task cancelled at the head of iteration 2 of a 2-URL batch, with the
\* questions of URL 1 kept and URL 2 never fetched
C1_Witness ==
  \E f \in FlowIds :
    /\ flows[f].pc = "cancel_status"
    /\ flows[f].exit = "Cancelled"
    /\ flows[f].idx = 2
    /\ Len(flows[f].urls) = 2
    /\ flows[f].fetched = {1}
    /\ flows[f].all_main # <<>>

\* C14: once the tasks of a user have all ended, neither main_<user>.txt nor
\* undetected_<user>.txt exists.
C14_NoOutputFileLeft ==
  \A u \in Users :
    Unfinished(u) = {} => MainFile(u) \notin files /\ UndetectedFile(u) \notin files

\* what task fl reads and holds, apart from how its `state` is referred to
FlowView(fl, us) == [fl EXCEPT !.state = "", !.flag = flag_of(fl, us)]

\* C15: a confirmation from a user without pending URLs starts no task, leaves
\* the registry as it was and is answered; /extract from a user whose batch
\* is running leaves the registry and the running tasks as they were and is
\* answered.
C15_MisuseIsNoOp ==
  \A u \in Users :
    /\ (prompts > 0 /\ StateOf(Memory, u).urls = <<>>)
         => /\ ~confirm_result(StateOf(Memory, u)).task
            /\ confirm_result(StateOf(Memory, u)).reply.kind = "alert_no_urls"
            /\ get_state(Memory, u).us = user_states
    /\ (Running(u) # {} /\ user_states[u] # None /\ The(user_states[u]).processing)
         => /\ extract_effect(Memory, u).us = user_states
            /\ \A f \in Running(u) :
                 FlowView(extract_effect(Memory, u).fl[f], extract_effect(Memory, u).us)
                   = FlowView(flows[f], user_states)
            /\ extract_result(StateOf(Memory, u)).reply.kind = "already_in_progress"

\* C16: the number a task reports when it halts as Cancelled is the number of
\* URLs of its batch it has processed.
C16_CancelReportsCompleted ==
  \A f \in FlowIds :
    flows[f].exit = "Cancelled"
      => flows[f].cancelled_at = Cardinality(flows[f].fetched)

\* C17: a text message from a user whose batch is running on the session in
\* the registry leaves that session's URL list as it is and brings no
\* confirmation prompt.
C17_TextIgnoredWhileProcessing ==
  \A u \in Users, text \in Messages :
    (\E f \in Running(u) : flows[f].state = "registry")
      => LET r == text_result(The(user_states[u]), text)
         IN /\ r.state.urls = The(user_states[u]).urls
            /\ r.reply.kind # "confirm_prompt"

\* C19: when a task whose session was removed from the registry ends while
\* the user has a newer session opened by /extract, that newer session is
\* left in the registry as it is.
C19_CleanupSparesNewerSession ==
  [][\A f \in FlowIds :
       (/\ flows[f].state = "detached"
        /\ flows[f].pc # "done"
        /\ flows'[f].pc = "done"
        /\ user_states[flows[f].user] # None
        /\ The(user_states[flows[f].user]).processing)
         => user_states'[flows[f].user] = user_states[flows[f].user]]_vars

\* C20: whenever a task of a user is inside its URL loop, /cancel from that
\* user raises the flag that this task reads.
C20_CancelReachesRunningFlow ==
  \A u \in Users :
    \A f \in Running(u) :
      flows[f].pc \in {"status", "backoff", "pause"}
        => flag_of(cancel_effect(Memory, u).fl[f], cancel_effect(Memory, u).us)

\* what a finished task accumulated and what it sent
SentAll(fl, field, sent) == fl[field] # <<>> => fl[sent] = Some(fl[field])

\* C2: a task that finished without being cancelled has fetched every URL of
\* its batch, recorded every URL at most once in `failed`, each with a
\* reason, and has sent the main and undetected questions it extracted.
C2_FailureIsolation ==
  \A f \in FlowIds :
    (flows[f].pc = "done" /\ flows[f].exit = "Completed")
      => /\ flows[f].fetched = 1..Len(flows[f].urls)
         /\ \A i, j \in 1..Len(flows[f].failed) :
               flows[f].failed[i].url = flows[f].failed[j].url => i = j
         /\ \A i \in 1..Len(flows[f].failed) :
               flows[f].failed[i].reason \in {"fetch error", "parse error"}
         /\ SentAll(flows[f], "all_main", "sent_main")
         /\ SentAll(flows[f], "all_undetected", "sent_undetected")

\* C3: a task that finished, Completed or Cancelled, has sent every main,
\* undetected and failed item it accumulated, and its user's session is gone.
C3_TerminalEmitsThenClears ==
  \A f \in FlowIds :
    flows[f].pc = "done"
      => /\ flows[f].exit \in {"Completed", "Cancelled"}
         /\ SentAll(flows[f], "all_main", "sent_main")
         /\ SentAll(flows[f], "all_undetected", "sent_undetected")
         /\ SentAll(flows[f], "failed", "sent_failed")
         /\ user_states[flows[f].user] = None

\* C4: no user has two process_urls tasks running at the same time.
C4_OneFlowPerUser == \A u \in Users : Cardinality(Running(u)) <= 1

\* C5: a session on which /cancel raised the flag is removed without further
\* user input, which only the finally clause of a task of that user does: so
\* such a session always has an unfinished task.
C5_CancelledSessionIsRemoved ==
  \A u \in Users :
    (user_states[u] # None /\ The(user_states[u]).cancel_requested)
      => Unfinished(u) # {}

\* C6: /extract from a user whose session is collecting URLs or awaiting
\* confirmation, with no batch running, leaves a fresh session: processing,
\* no URL, flag down.
C6_StartDiscardsPriorSession ==
  \A u \in Users :
    (user_states[u] # None /\ The(user_states[u]).processing /\ Unfinished(u) = {})
      => StateOf(extract_effect(Memory, u), u)
           = [FreshState EXCEPT !.processing = TRUE]

\* the reply tells the user that entries were not accepted
ReportsInvalid(reply) == reply.kind = "no_valid_urls_found"

\* C7: for a text message handled while URLs are collected, the entries
\* without http:// or https:// are absent from the session's URL list and,
\* if there are any, the reply reports them; the confirmation prompt is sent
\* exactly when the message has a valid URL.
C7_InvalidDroppedAndReported ==
  \A u \in Users, text \in Messages :
    (user_states[u] # None /\ The(user_states[u]).processing
       /\ ~The(user_states[u]).cancel_requested)
      => LET r == text_result(The(user_states[u]), text)
             entries == message_urls(text)
             invalid == SelectSeq(entries, LAMBDA e : ~is_valid_url(e))
         IN /\ \A i \in 1..Len(r.state.urls) : is_valid_url(r.state.urls[i])
            /\ invalid # <<>> => ReportsInvalid(r.reply)
            /\ r.reply.kind = "confirm_prompt"
                 <=> \E i \in 1..Len(entries) : is_valid_url(entries[i])

====
